---------------------------- MODULE Spec2Model ----------------------------
(***************************************************************************)
(* Model of the discord-music bot: the per-guild playback queue            *)
(* (src/queue_manager.py), the continuation state machine that advances it *)
(* (Music._play_next and the commands of src/cogs/music.py) and the voice  *)
(* client it drives; the registry of queues (QueueManager); the resolver   *)
(* (YTDLSource, src/ytdl_source.py) and the audio cache it fills           *)
(* (src/cache_manager.py, src/database.py).                                *)
(*                                                                         *)
(* Execution model.  All coroutines run on one asyncio event loop: code    *)
(* between two suspension points runs without interleaving of other loop   *)
(* code.  `running` is the coroutine that holds the loop; the steps of one *)
(* synchronous segment are separate actions, and no other loop action is   *)
(* enabled until the segment ends (running.pc = "idle").  `async with      *)
(* gq._lock` never suspends, because no coroutine awaits while holding the *)
(* lock.  The audio player runs on its own thread: its actions (TrackEnd,  *)
(* EngineError, AfterPlaying) interleave freely with loop segments.        *)
(***************************************************************************)
EXTENDS Naturals, Sequences, FiniteSets

VARIABLES
    queue,       \* gq._queue: the pending tracks, head first
    current,     \* gq.current: a track or NULL
    gqVC,        \* gq.voice_client is not None
    vcConn,      \* interaction.guild.voice_client exists and is connected
    player,      \* state of the voice client's audio player
    source,      \* the track last handed to voice_client.play, or NULL
    afterDue,    \* players that ended and have not yet called after=, by error flag
    scheduled,   \* _play_next coroutines submitted by after_playing, not yet started
    running,     \* the coroutine segment that holds the event loop
    resolving,   \* _play_next coroutines suspended in YTDLSource.from_query, by track
    panel,       \* the attribute gq.now_playing_message
    addLog,      \* history: tracks in the order they were enqueued
    curLog,      \* history: tracks in the order they were made current
    lost,        \* history: tracks popped and resolved whose play() raised
    lastOp,      \* history: the last step taken
    script,      \* scenario driver: the external operations still to perform
    scn,         \* scenario driver: the scenario being run
    guilds,      \* QueueManager._guilds: guild id -> GuildQueue object (or none)
    heap,        \* the GuildQueue objects created so far: their pending, current
    lastCall,    \* history: the last call made through the registry
    rows,        \* table audio_cache: url -> record (or none)
    files,       \* the audio files on disk (os.path.isfile)
    now,         \* the clock read by datetime('now')
    call,        \* the resolver call in progress, or the last one and its result
    playlist_songs, \* table playlist_songs: the rows of one playlist
    sqlite_sequence \* the largest id AUTOINCREMENT has given to a row of playlist_songs

\* The session whose playback is followed.
sessionVars == <<queue, current, gqVC, vcConn, player, source, afterDue,
                 scheduled, running, resolving, panel, addLog, curLog, lost,
                 lastOp, script, scn>>

\* The registry of sessions.
registryVars == <<guilds, heap, lastCall>>

\* The resolver and the audio cache.
resolverVars == <<rows, files, now, call>>

\* The songs of a stored playlist.
playlistVars == <<playlist_songs, sqlite_sequence>>

vars == <<sessionVars, registryVars, resolverVars, playlistVars>>

\* Total number of tracks the commands may enqueue in a free run.
MaxAdds == 3

Tracks == {"A", "B", "C"}

NULL == "null"

\* script = Free: any external operation may happen (no scenario).
Free == <<"*">>

NoScn == [id |-> "none", a |-> NULL, b |-> NULL, c |-> NULL]

Idle == [pc |-> "idle", entry |-> NULL]

LoopFree == running.pc = "idle"

-----------------------------------------------------------------------------
(* History and scenario bookkeeping *)

\* An operation of the command surface or an event of the environment.
Ext(op, arg) ==
    /\ lastOp' = <<op, arg>>
    /\ IF script = Free
         THEN script' = script
         ELSE /\ script # <<>>
              /\ Head(script) = <<op, arg>>
              /\ script' = Tail(script)
    /\ scn' = scn
    /\ UNCHANGED <<registryVars, resolverVars, playlistVars>>

\* A step the program takes by itself.
Int(op, arg) ==
    /\ lastOp' = <<op, arg>>
    /\ script' = script
    /\ scn' = scn
    /\ UNCHANGED <<registryVars, resolverVars, playlistVars>>

AddBudget == script # Free \/ Len(addLog) < MaxAdds

\* Tracks are interchangeable: in a free run the first track requested is
\* "A", and a track not requested before is the next one in TrackOrder.
TrackOrder == <<"A", "B", "C">>

Requestable(t) ==
    \/ script # Free
    \/ \E i \in 1..Len(TrackOrder) :
          /\ t = TrackOrder[i]
          /\ i <= Cardinality({addLog[k] : k \in 1..Len(addLog)}) + 1

-----------------------------------------------------------------------------
(* GuildQueue, src/queue_manager.py *)

add_at_head(q, entry) == <<entry>> \o q

add(q, entry) == Append(q, entry)

add_next_at_tail(q, entry) == Append(q, entry)

add_next(q, entry) == <<entry>> \o q

pop_last(q) ==
    IF q # <<>>
      THEN [entry |-> q[Len(q)], rest |-> SubSeq(q, 1, Len(q) - 1)]
      ELSE [entry |-> NULL, rest |-> q]

pop_next(q) ==
    IF q # <<>>
      THEN [entry |-> Head(q), rest |-> Tail(q)]
      ELSE [entry |-> NULL, rest |-> q]

Bijections(n) ==
    {f \in [1..n -> 1..n] : \A i, j \in 1..n : i # j => f[i] # f[j]}

Range(q) == {q[i] : i \in 1..Len(q)}

shuffle_resample(q) == [1..Len(q) -> Range(q)]

\* random.shuffle: every reordering of the pending tracks is a possible result.
shuffle(q) == {[i \in 1..Len(q) |-> q[f[i]]] : f \in Bijections(Len(q))}

-----------------------------------------------------------------------------
(* The voice client (discord.VoiceClient) as the code uses it *)

is_playing == player = "playing"

is_paused == player = "paused"

OneMore(err) == [afterDue EXCEPT ![err] = @ + 1]

\* VoiceClient.stop(): ends the player, if there is one; the player's thread
\* then calls after= with no error.
vc_stop ==
    /\ player' = "none"
    /\ afterDue' = IF is_playing \/ is_paused THEN OneMore(FALSE) ELSE afterDue

skip_without_stop ==
    UNCHANGED <<player, afterDue, queue, current, source>>

skip_and_pop ==
    /\ IF gqVC /\ is_playing THEN vc_stop ELSE UNCHANGED <<player, afterDue>>
    /\ queue' = pop_next(queue).rest
    /\ current' = pop_next(queue).entry
    /\ UNCHANGED source

\* GuildQueue.skip
skip ==
    /\ IF gqVC /\ is_playing THEN vc_stop ELSE UNCHANGED <<player, afterDue>>
    /\ UNCHANGED <<queue, current, source>>

clear_pending_only ==
    /\ queue' = <<>>
    /\ current' = current

\* GuildQueue.clear
clear ==
    /\ queue' = <<>>
    /\ current' = NULL

-----------------------------------------------------------------------------
(* QueueManager, src/queue_manager.py *)

GuildIds == {1, 2}

\* guilds[g] = NoQueue: guild_id not in self._guilds.
NoQueue == 0

\* GuildQueue(): what __init__ leaves in the pending deque and in current.
NewGuildQueue == [queue |-> <<>>, current |-> NULL]

RegistryInit ==
    /\ guilds = [g \in GuildIds |-> NoQueue]
    /\ heap = <<>>
    /\ lastCall = [guild |-> NoQueue, ret |-> NoQueue]

get_always_new(g) ==
    [guilds |-> [guilds EXCEPT ![g] = Len(heap) + 1],
     heap   |-> Append(heap, NewGuildQueue),
     ret    |-> Len(heap) + 1]

\* QueueManager.get: the registry and the objects after the call, and the
\* object returned.
get(g) ==
    IF guilds[g] = NoQueue
      THEN [guilds |-> [guilds EXCEPT ![g] = Len(heap) + 1],
            heap   |-> Append(heap, NewGuildQueue),
            ret    |-> Len(heap) + 1]
      ELSE [guilds |-> guilds, heap |-> heap, ret |-> guilds[g]]

-----------------------------------------------------------------------------
(* The audio cache, src/cache_manager.py and src/database.py *)

\* What the resolver is asked for: the path of a local file "f", the page
\* urls "u" and "v", another url "a" of the page "u", and a search text "s".
Queries == {"f", "u", "a", "v", "s"}

\* data.get("webpage_url") or query: yt-dlp reports the page url.
webpage_url(q) == IF q = "a" THEN "u" ELSE q

\* A query that is neither a url nor a path: yt-dlp searches for it
\* (default_search) and its result is a list, data["entries"].
IsFreeText(q) == q = "s"

\* A query that is a file path, as a path.
LocalPath(q) == <<"local", q>>

\* CACHE_DIR / (url_to_hash(query) + ".opus")
CachePath(q) == <<"cache", q>>

isfile(path) == path \in files

\* File sizes, in MiB: two that fit together, one that fits with neither,
\* one above the maximum.
Sizes == {900, 1200, 2400}

\* The size of the files the resolver downloads.
DownloadSizes == {1200}

MAX_CACHE_SIZE_MB == 2000

\* max_bytes, in MiB like the sizes.
max_bytes == MAX_CACHE_SIZE_MB

\* The clock takes the values 0..MaxTime.
MaxTime == 1

\* data.get("title", "Unknown") of the download for a query: "a" and "u"
\* are the same page under two titles.
TitleOf(q) == q

\* No row of audio_cache under a url.
NoRow == [file_path |-> <<>>, title |-> NULL, file_size |-> 0,
          cached_at |-> 0, last_played |-> 0]

Cached(r) == {k \in Queries : r[k] # NoRow}

RECURSIVE SumSizes(_, _)
SumSizes(r, keys) ==
    IF keys = {} THEN 0
    ELSE LET k == CHOOSE x \in keys : TRUE
         IN  r[k].file_size + SumSizes(r, keys \ {k})

\* db.get_total_cache_size
get_total_cache_size(r) == SumSizes(r, Cached(r))

upsert_or_ignore(r, url, file_path, title, file_size) ==
    IF r[url] # NoRow THEN r
    ELSE [r EXCEPT ![url] = [file_path |-> file_path, title |-> title,
                             file_size |-> file_size, cached_at |-> now,
                             last_played |-> now]]

\* db.upsert_cached_track: INSERT, with cached_at and last_played at their
\* default, now; ON CONFLICT(url) overwrite file_path, title and file_size
\* (and duration, not modelled) and set last_played to now, cached_at kept.
upsert_cached_track(r, url, file_path, title, file_size) ==
    [r EXCEPT ![url] = [file_path |-> file_path, title |-> title,
                        file_size |-> file_size,
                        cached_at |-> IF r[url] = NoRow THEN now
                                      ELSE r[url].cached_at,
                        last_played |-> now]]

\* db.touch_cached_track
touch_cached_track(r, url) ==
    IF r[url] = NoRow THEN r ELSE [r EXCEPT ![url].last_played = now]

\* db.delete_cached_track
delete_cached_track(r, url) == [r EXCEPT ![url] = NoRow]

first_in_any_order(r) == Cached(r)

\* The rows that db.get_all_cached_tracks (ORDER BY last_played ASC) may put
\* first: the order among equal last_played is not fixed by the query.
FirstByLastPlayed(r) ==
    {k \in Cached(r) : \A j \in Cached(r) : r[k].last_played <= r[j].last_played}

\* The loop of enforce_cache_limit from the rows r and the files f, the
\* urls in evicted deleted so far: the possible results.  The loop ends when
\* the total is within max_bytes or no row is left.  os.remove on a missing
\* file raises FileNotFoundError, which is passed over; on a file that is
\* there it removes it, or raises another OSError (the file cannot be
\* removed), which leaves enforce_cache_limit.
RECURSIVE evict_loop(_, _, _)
evict_loop(r, f, evicted) ==
    IF get_total_cache_size(r) <= max_bytes \/ Cached(r) = {}
      THEN {[rows |-> r, files |-> f, raised |-> FALSE, evicted |-> evicted]}
      ELSE UNION {
             (IF r[k].file_path \in f
                THEN {[rows |-> r, files |-> f, raised |-> TRUE,
                       evicted |-> evicted]}
                ELSE {})
             \cup evict_loop(delete_cached_track(r, k), f \ {r[k].file_path},
                             Append(evicted, k))
             : k \in FirstByLastPlayed(r)}

enforce_nothing(r, f) ==
    {[rows |-> r, files |-> f, raised |-> FALSE, evicted |-> <<>>]}

\* enforce_cache_limit from the rows r and the files f.
enforce_cache_limit(r, f) == evict_loop(r, f, <<>>)

\* register_cached_file: os.path.getsize of the file, which is there, upsert,
\* enforce_cache_limit.
register_cached_file(url, file_path, title, file_size) ==
    enforce_cache_limit(
        upsert_cached_track(rows, url, file_path, title, file_size),
        files \cup {file_path})

\* No result yet.
NoOut == [kind |-> "none", file |-> <<>>, exc |-> "none", tracks |-> <<>>]

NoCall == [fn |-> "none", pc |-> "idle", query |-> NULL, data |-> <<>>,
           tried |-> <<>>,
           out |-> NoOut]

ResolverInit ==
    /\ rows = [k \in Queries |-> NoRow]
    /\ files = {LocalPath("f")}
    /\ now = 0
    /\ call = NoCall

-----------------------------------------------------------------------------
(* Init: a fresh GuildQueue, no voice connection *)

\* A fresh GuildQueue with no voice connection, nothing running.
SessionInit ==
    /\ queue = <<>>
    /\ current = NULL
    /\ gqVC = FALSE
    /\ vcConn = FALSE
    /\ player = "none"
    /\ source = NULL
    /\ afterDue = [err \in BOOLEAN |-> 0]
    /\ scheduled = 0
    /\ running = Idle
    /\ resolving = [t \in Tracks |-> 0]
    /\ panel = "unset"
    /\ addLog = <<>>
    /\ curLog = <<>>
    /\ lost = <<>>
    /\ lastOp = <<"init", NULL>>
    /\ script = Free
    /\ scn = NoScn

\* init_db creates the table playlist_songs empty.
PlaylistInit == playlist_songs = {} /\ sqlite_sequence = 0

Init ==
    /\ RegistryInit
    /\ ResolverInit
    /\ SessionInit
    /\ PlaylistInit

-----------------------------------------------------------------------------
(* Commands, src/cogs/music.py.  Each action is the synchronous segment that  *)
(* follows the command's last suspension point (metadata fetched, voice     *)
(* channel joined).                                                        *)

\* _get_voice_client: joins the channel if there is no voice client (a new
\* client has no player) and stores it in gq.voice_client.
get_voice_client ==
    /\ vcConn' = TRUE
    /\ gqVC' = TRUE

\* /play: gq.add(entry), then _play_next unless the client plays or is paused.
PlayCmd(t) ==
    /\ LoopFree
    /\ AddBudget
    /\ Requestable(t)
    /\ get_voice_client
    /\ queue' = add(queue, t)
    /\ addLog' = Append(addLog, t)
    /\ running' = IF is_playing \/ is_paused THEN Idle
                  ELSE [pc |-> "lock", entry |-> NULL]
    /\ Ext("play", t)
    /\ UNCHANGED <<current, player, source, afterDue, scheduled, resolving,
                   panel, curLog, lost>>

\* /playnext: gq.add_next(entry) while the client plays or is paused,
\* otherwise gq.add(entry) and _play_next.
PlayNextCmd(t) ==
    /\ LoopFree
    /\ AddBudget
    /\ Requestable(t)
    /\ get_voice_client
    /\ queue' = IF is_playing \/ is_paused THEN add_next(queue, t) ELSE add(queue, t)
    /\ addLog' = Append(addLog, t)
    /\ running' = IF is_playing \/ is_paused THEN Idle
                  ELSE [pc |-> "lock", entry |-> NULL]
    /\ Ext("playnext", t)
    /\ UNCHANGED <<current, player, source, afterDue, scheduled, resolving,
                   panel, curLog, lost>>

\* /skip and the panel's Skip button: refused unless the client plays or is
\* paused, then gq.skip().
SkipCmd ==
    /\ LoopFree
    /\ vcConn
    /\ is_playing \/ is_paused
    /\ skip
    /\ Ext("skip", NULL)
    /\ UNCHANGED <<gqVC, vcConn, scheduled, running, resolving, panel, addLog,
                   curLog, lost>>

\* /pause: vc.pause(); the panel update that follows reads
\* gq.now_playing_message and changes no state of the queue.
PauseCmd ==
    /\ LoopFree
    /\ vcConn
    /\ is_playing
    /\ player' = "paused"
    /\ Ext("pause", NULL)
    /\ UNCHANGED <<queue, current, gqVC, vcConn, source, afterDue, scheduled,
                   running, resolving, panel, addLog, curLog, lost>>

\* /resume
ResumeCmd ==
    /\ LoopFree
    /\ vcConn
    /\ is_paused
    /\ player' = "playing"
    /\ Ext("resume", NULL)
    /\ UNCHANGED <<queue, current, gqVC, vcConn, source, afterDue, scheduled,
                   running, resolving, panel, addLog, curLog, lost>>

\* /shuffle: refused with fewer than two pending tracks.
ShuffleCmd ==
    /\ LoopFree
    /\ Len(queue) >= 2
    /\ queue' \in shuffle(queue)
    /\ Ext("shuffle", NULL)
    /\ UNCHANGED <<current, gqVC, vcConn, player, source, afterDue, scheduled,
                   running, resolving, panel, addLog, curLog, lost>>

\* /stop: deletes the now-playing panel, gq.clear(), then stops and
\* disconnects the voice client.  Reading gq.now_playing_message raises
\* AttributeError while the attribute was never assigned (GuildQueue.__init__
\* does not create it): the command then ends before gq.clear().
StopCmd ==
    /\ LoopFree
    /\ IF panel = "unset"
         THEN UNCHANGED <<queue, current, gqVC, vcConn, player, afterDue, panel>>
         ELSE /\ panel' = "none"
              /\ clear
              /\ IF vcConn
                   THEN vc_stop /\ vcConn' = FALSE /\ gqVC' = FALSE
                   ELSE UNCHANGED <<player, afterDue, vcConn, gqVC>>
    /\ Ext("stop", NULL)
    /\ UNCHANGED <<source, scheduled, running, resolving, addLog, curLog, lost>>

-----------------------------------------------------------------------------
(* Music._play_next, src/cogs/music.py:130-169 *)

\* A coroutine submitted by after_playing starts when the loop is free.
PlayNextStart ==
    /\ LoopFree
    /\ scheduled > 0
    /\ scheduled' = scheduled - 1
    /\ running' = [pc |-> "lock", entry |-> NULL]
    /\ Int("start", NULL)
    /\ UNCHANGED <<queue, current, gqVC, vcConn, player, source, afterDue,
                   resolving, panel, addLog, curLog, lost>>

play_next_lock_keeps_current ==
    /\ running.pc = "lock"
    /\ LET popped == pop_next(queue) IN
         /\ queue' = popped.rest
         /\ IF popped.entry = NULL
              THEN running' = Idle /\ curLog' = curLog /\ current' = current
              ELSE /\ running' = [pc |-> "check", entry |-> popped.entry]
                   /\ curLog' = Append(curLog, popped.entry)
                   /\ current' = popped.entry
    /\ Int("lock", NULL)
    /\ UNCHANGED <<gqVC, vcConn, player, source, afterDue, scheduled, resolving,
                   panel, addLog, lost>>

\* async with gq._lock: entry = gq.pop_next(); gq.current = entry (None ends
\* the coroutine).
PlayNextLock ==
    /\ running.pc = "lock"
    /\ LET popped == pop_next(queue) IN
         /\ queue' = popped.rest
         /\ current' = popped.entry
         /\ IF popped.entry = NULL
              THEN running' = Idle /\ curLog' = curLog
              ELSE /\ running' = [pc |-> "check", entry |-> popped.entry]
                   /\ curLog' = Append(curLog, popped.entry)
    /\ Int("lock", NULL)
    /\ UNCHANGED <<gqVC, vcConn, player, source, afterDue, scheduled, resolving,
                   panel, addLog, lost>>

play_next_resolves_without_voice ==
    /\ running.pc = "check"
    /\ current' = current
    /\ running' = [running EXCEPT !.pc = "resolve"]
    /\ Int("check", running.entry)
    /\ UNCHANGED <<queue, gqVC, vcConn, player, source, afterDue, scheduled,
                   resolving, panel, addLog, curLog, lost>>

\* if not gq.voice_client or not gq.voice_client.is_connected():
\*     gq.current = None; return
PlayNextCheckVoice ==
    /\ running.pc = "check"
    /\ IF ~gqVC \/ ~vcConn
         THEN current' = NULL /\ running' = Idle
         ELSE current' = current /\ running' = [running EXCEPT !.pc = "resolve"]
    /\ Int("check", running.entry)
    /\ UNCHANGED <<queue, gqVC, vcConn, player, source, afterDue, scheduled,
                   resolving, panel, addLog, curLog, lost>>

\* YTDLSource.from_query returns without suspending: the url is a local file
\* or a cache hit.  The cache is shared with the other sessions and is not
\* tracked here: a hit and a miss are both possible at every call.
FromQueryLocal ==
    /\ running.pc = "resolve"
    /\ running' = [running EXCEPT !.pc = "play"]
    /\ Int("local", running.entry)
    /\ UNCHANGED <<queue, current, gqVC, vcConn, player, source, afterDue,
                   scheduled, resolving, panel, addLog, curLog, lost>>

\* YTDLSource.from_query suspends in run_in_executor (cache miss): the
\* coroutine gives up the loop.
FromQueryAwait ==
    /\ running.pc = "resolve"
    /\ resolving' = [resolving EXCEPT ![running.entry] = @ + 1]
    /\ running' = Idle
    /\ Int("await", running.entry)
    /\ UNCHANGED <<queue, current, gqVC, vcConn, player, source, afterDue,
                   scheduled, panel, addLog, curLog, lost>>

\* from_query returns a source (downloaded, or streamed after a failed
\* download): the coroutine resumes at voice_client.play.
FromQueryDone(t) ==
    /\ LoopFree
    /\ resolving[t] > 0
    /\ resolving' = [resolving EXCEPT ![t] = @ - 1]
    /\ running' = [pc |-> "play", entry |-> t]
    /\ Int("resolved", t)
    /\ UNCHANGED <<queue, current, gqVC, vcConn, player, source, afterDue,
                   scheduled, panel, addLog, curLog, lost>>

from_query_failed_stalls(t) ==
    /\ LoopFree
    /\ resolving[t] > 0
    /\ resolving' = [resolving EXCEPT ![t] = @ - 1]
    /\ running' = Idle
    /\ Ext("resolve_fail", t)
    /\ UNCHANGED <<queue, current, gqVC, vcConn, player, source, afterDue,
                   scheduled, panel, addLog, curLog, lost>>

\* from_query raises: the except branch calls _play_next again.
FromQueryFailed(t) ==
    /\ LoopFree
    /\ resolving[t] > 0
    /\ resolving' = [resolving EXCEPT ![t] = @ - 1]
    /\ running' = [pc |-> "lock", entry |-> NULL]
    /\ Ext("resolve_fail", t)
    /\ UNCHANGED <<queue, current, gqVC, vcConn, player, source, afterDue,
                   scheduled, panel, addLog, curLog, lost>>

\* _send_now_playing: returns at once without a current track; otherwise
\* reads gq.now_playing_message (AttributeError while it was never assigned)
\* and only then assigns the new panel message.
send_now_playing ==
    panel' = IF current = NULL \/ panel = "unset" THEN panel ELSE "msg"

\* gq.voice_client.play(source, after=after_playing), then _send_now_playing.
\* play raises when gq.voice_client is None, when the client is not connected
\* and when it is_playing(); a paused player is replaced (it never ends, so
\* its after= is never called).
VoicePlay ==
    /\ running.pc = "play"
    /\ IF ~gqVC \/ ~vcConn \/ is_playing
         THEN /\ lost' = Append(lost, <<running.entry,
                           IF ~gqVC THEN "no_client"
                           ELSE IF ~vcConn THEN "not_connected"
                           ELSE "already_playing">>)
              /\ UNCHANGED <<player, source, panel>>
         ELSE /\ player' = "playing"
              /\ source' = running.entry
              /\ send_now_playing
              /\ lost' = lost
    /\ running' = Idle
    /\ Int("voice_play", running.entry)
    /\ UNCHANGED <<queue, current, gqVC, vcConn, afterDue, scheduled, resolving,
                   addLog, curLog>>

-----------------------------------------------------------------------------
(* The player thread and the environment *)

\* The source is exhausted: the player ends and will call after=(None).
TrackEnd ==
    /\ is_playing
    /\ player' = "none"
    /\ afterDue' = OneMore(FALSE)
    /\ Ext("track_end", NULL)
    /\ UNCHANGED <<queue, current, gqVC, vcConn, source, scheduled, running,
                   resolving, panel, addLog, curLog, lost>>

\* The player fails in mid-stream: it ends and will call after=(error).
EngineError ==
    /\ is_playing
    /\ player' = "none"
    /\ afterDue' = OneMore(TRUE)
    /\ Ext("engine_error", NULL)
    /\ UNCHANGED <<queue, current, gqVC, vcConn, source, scheduled, running,
                   resolving, panel, addLog, curLog, lost>>

after_playing_drops_error(error) ==
    /\ afterDue[error] > 0
    /\ afterDue' = [afterDue EXCEPT ![error] = @ - 1]
    /\ scheduled' = IF error THEN scheduled ELSE scheduled + 1
    /\ Int("after", error)
    /\ UNCHANGED <<queue, current, gqVC, vcConn, player, source, running,
                   resolving, panel, addLog, curLog, lost>>

after_playing_pops(error) ==
    /\ afterDue[error] > 0
    /\ afterDue' = [afterDue EXCEPT ![error] = @ - 1]
    /\ scheduled' = scheduled + 1
    /\ queue' = pop_next(queue).rest
    /\ current' = pop_next(queue).entry
    /\ Int("after", error)
    /\ UNCHANGED <<gqVC, vcConn, player, source, running,
                   resolving, panel, addLog, curLog, lost>>

\* after_playing(error): submits _play_next to the loop, whatever the error.
AfterPlaying(error) ==
    /\ afterDue[error] > 0
    /\ afterDue' = [afterDue EXCEPT ![error] = @ - 1]
    /\ scheduled' = scheduled + 1
    /\ Int("after", error)
    /\ UNCHANGED <<queue, current, gqVC, vcConn, player, source, running,
                   resolving, panel, addLog, curLog, lost>>

\* The voice connection is lost (the bot is removed from the channel):
\* the client stops its player; gq.voice_client keeps the dead client.
Disconnect ==
    /\ vcConn
    /\ vcConn' = FALSE
    /\ vc_stop
    /\ Ext("disconnect", NULL)
    /\ UNCHANGED <<queue, current, gqVC, source, scheduled, running, resolving,
                   panel, addLog, curLog, lost>>

-----------------------------------------------------------------------------

Next ==
    \/ \E t \in Tracks : PlayCmd(t)
    \/ \E t \in Tracks : PlayNextCmd(t)
    \/ SkipCmd
    \/ PauseCmd
    \/ ResumeCmd
    \/ ShuffleCmd
    \/ StopCmd
    \/ PlayNextStart
    \/ PlayNextLock
    \/ PlayNextCheckVoice
    \/ FromQueryLocal
    \/ FromQueryAwait
    \/ \E t \in Tracks : FromQueryDone(t)
    \/ \E t \in Tracks : FromQueryFailed(t)
    \/ VoicePlay
    \/ TrackEnd
    \/ EngineError
    \/ \E error \in BOOLEAN : AfterPlaying(error)
    \/ Disconnect

Spec == Init /\ [][Next]_vars

-----------------------------------------------------------------------------
(* Other callers and runs *)

\* A caller of the queue's interface invokes gq.clear() directly (as /stop
\* does once it is past the panel).
GqClear ==
    /\ LoopFree
    /\ clear
    /\ Ext("clear", NULL)
    /\ UNCHANGED <<gqVC, vcConn, player, source, afterDue, scheduled, running,
                   resolving, panel, addLog, curLog, lost>>

SpecClear == Init /\ [][Next \/ GqClear]_vars

\* Runs that enqueue with gq.add only (no /playnext, no /shuffle).
FifoNext ==
    \/ \E t \in Tracks : PlayCmd(t)
    \/ SkipCmd
    \/ PauseCmd
    \/ ResumeCmd
    \/ PlayNextStart
    \/ PlayNextLock
    \/ PlayNextCheckVoice
    \/ FromQueryLocal
    \/ FromQueryAwait
    \/ \E t \in Tracks : FromQueryDone(t)
    \/ \E t \in Tracks : FromQueryFailed(t)
    \/ VoicePlay
    \/ TrackEnd
    \/ EngineError
    \/ \E error \in BOOLEAN : AfterPlaying(error)
    \/ Disconnect

SpecFifo == Init /\ [][FifoNext]_vars

\* Runs in which the voice client stays connected, nobody stops or pauses,
\* every resolution ends and every player given a track ends and calls
\* after=.  The steps of a coroutine, and the coroutines submitted to the
\* loop, are run by the event loop; the player thread runs on its own.
LiveNext ==
    \/ \E t \in Tracks : PlayCmd(t)
    \/ \E t \in Tracks : PlayNextCmd(t)
    \/ SkipCmd
    \/ ShuffleCmd
    \/ PlayNextStart
    \/ PlayNextLock
    \/ PlayNextCheckVoice
    \/ FromQueryLocal
    \/ FromQueryAwait
    \/ \E t \in Tracks : FromQueryDone(t)
    \/ \E t \in Tracks : FromQueryFailed(t)
    \/ VoicePlay
    \/ TrackEnd
    \/ EngineError
    \/ \E error \in BOOLEAN : AfterPlaying(error)

LiveFairness ==
    /\ WF_vars(PlayNextStart)
    /\ WF_vars(PlayNextLock)
    /\ WF_vars(PlayNextCheckVoice)
    /\ WF_vars(FromQueryLocal \/ FromQueryAwait)
    /\ \A t \in Tracks : WF_vars(FromQueryDone(t) \/ FromQueryFailed(t))
    /\ WF_vars(VoicePlay)
    /\ WF_vars(TrackEnd \/ EngineError)
    /\ \A error \in BOOLEAN : WF_vars(AfterPlaying(error))

SpecLive == Init /\ [][LiveNext]_vars /\ LiveFairness

\* Scenario runs: the external operations and the events of the environment
\* (end of track, engine error, failed resolution) are those of a script, in
\* order; the voice connection stays up.

\* A session in which track x plays and the tracks of pending wait.
Playing(x, pending) ==
    /\ queue = pending
    /\ current = x
    /\ gqVC = TRUE
    /\ vcConn = TRUE
    /\ player = "playing"
    /\ source = x
    /\ afterDue = [err \in BOOLEAN |-> 0]
    /\ scheduled = 0
    /\ running = Idle
    /\ resolving = [t \in Tracks |-> 0]
    /\ panel = "unset"
    /\ addLog = <<x>> \o pending
    /\ curLog = <<x>>
    /\ lost = <<>>
    /\ lastOp = <<"init", NULL>>

Fresh ==
    /\ queue = <<>>
    /\ current = NULL
    /\ gqVC = FALSE
    /\ vcConn = FALSE
    /\ player = "none"
    /\ source = NULL
    /\ afterDue = [err \in BOOLEAN |-> 0]
    /\ scheduled = 0
    /\ running = Idle
    /\ resolving = [t \in Tracks |-> 0]
    /\ panel = "unset"
    /\ addLog = <<>>
    /\ curLog = <<>>
    /\ lost = <<>>
    /\ lastOp = <<"init", NULL>>

ScnInit ==
    /\ RegistryInit
    /\ ResolverInit
    /\ PlaylistInit
    /\ \E a, b, c \in Tracks :
           \/ /\ Fresh
              /\ scn = [id |-> "first", a |-> a, b |-> NULL, c |-> NULL]
              /\ script = << <<"play", a>> >>
           \/ /\ Playing(a, <<>>)
              /\ scn = [id |-> "skip", a |-> a, b |-> b, c |-> c]
              /\ script = << <<"play", b>>, <<"play", c>>, <<"skip", NULL>> >>
           \/ /\ \E x \in Tracks : Playing(x, <<c>>)
              /\ scn = [id |-> "lifo", a |-> a, b |-> b, c |-> c]
              /\ script = << <<"playnext", a>>, <<"playnext", b>>,
                             <<"track_end", NULL>> >>
           \/ /\ \E x \in Tracks : Playing(x, <<>>)
              /\ scn = [id |-> "lifo3", a |-> a, b |-> b, c |-> c]
              /\ script = << <<"playnext", a>>, <<"playnext", b>>,
                             <<"playnext", c>>, <<"track_end", NULL>> >>
           \/ /\ \E x \in Tracks : Playing(x, <<a, b, c>>)
              /\ scn = [id |-> "cascade", a |-> a, b |-> b, c |-> c]
              /\ script = << <<"track_end", NULL>>, <<"resolve_fail", a>>,
                             <<"resolve_fail", b>> >>
           \/ /\ \E x \in Tracks : Playing(x, <<a, b>>)
              /\ scn = [id |-> "exhaust", a |-> a, b |-> b, c |-> NULL]
              /\ script = << <<"track_end", NULL>>, <<"resolve_fail", a>>,
                             <<"resolve_fail", b>> >>
           \/ /\ Playing(a, <<b, c>>)
              /\ scn = [id |-> "end", a |-> a, b |-> b, c |-> c]
              /\ script = << <<"track_end", NULL>> >>
           \/ /\ Playing(a, <<b, c>>)
              /\ scn = [id |-> "error", a |-> a, b |-> b, c |-> c]
              /\ script = << <<"engine_error", NULL>> >>
           \/ /\ Fresh
              /\ scn = [id |-> "clear", a |-> a, b |-> NULL, c |-> NULL]
              /\ script = << <<"play", a>>, <<"clear", NULL>> >>

ScnNext ==
    \/ \E t \in Tracks : PlayCmd(t)
    \/ \E t \in Tracks : PlayNextCmd(t)
    \/ SkipCmd
    \/ PlayNextStart
    \/ PlayNextLock
    \/ PlayNextCheckVoice
    \/ FromQueryLocal
    \/ FromQueryAwait
    \/ \E t \in Tracks : FromQueryDone(t)
    \/ \E t \in Tracks : FromQueryFailed(t)
    \/ VoicePlay
    \/ TrackEnd
    \/ EngineError
    \/ \E error \in BOOLEAN : AfterPlaying(error)
    \/ GqClear

Scn == ScnInit /\ [][ScnNext]_vars

\* Several sessions: calls of the GuildQueue methods, each on the object that
\* queue_manager.get(guild_id) returns, as every command and _play_next do.

\* Tracks a session may have pending in these runs.
MaxPending == 2

\* The call made for guild g returns: get has updated the registry and
\* returned the object r.ret.
Returned(g, r) ==
    /\ guilds' = r.guilds
    /\ lastCall' = [guild |-> g, ret |-> r.ret]
    /\ UNCHANGED <<sessionVars, resolverVars, playlistVars>>

RegGet(g) ==
    LET r == get(g) IN
        /\ heap' = r.heap
        /\ Returned(g, r)

RegAdd(g, t) ==
    LET r == get(g) IN
        /\ Len(r.heap[r.ret].queue) < MaxPending
        /\ heap' = [r.heap EXCEPT ![r.ret].queue = add(@, t)]
        /\ Returned(g, r)

RegAddNext(g, t) ==
    LET r == get(g) IN
        /\ Len(r.heap[r.ret].queue) < MaxPending
        /\ heap' = [r.heap EXCEPT ![r.ret].queue = add_next(@, t)]
        /\ Returned(g, r)

\* The locked section of _play_next: entry = gq.pop_next(); gq.current = entry.
RegAdvance(g) ==
    LET r == get(g)
        popped == pop_next(r.heap[r.ret].queue)
    IN  /\ heap' = [r.heap EXCEPT ![r.ret] =
                       [queue |-> popped.rest, current |-> popped.entry]]
        /\ Returned(g, r)

\* gq.skip() writes neither pending nor current.
RegSkip(g) ==
    LET r == get(g) IN
        /\ heap' = r.heap
        /\ Returned(g, r)

RegClear(g) ==
    LET r == get(g) IN
        /\ heap' = [r.heap EXCEPT ![r.ret] = [queue |-> <<>>, current |-> NULL]]
        /\ Returned(g, r)

RegShuffle(g) ==
    LET r == get(g) IN
        /\ Len(r.heap[r.ret].queue) >= 2
        /\ heap' \in {[r.heap EXCEPT ![r.ret].queue = q] :
                         q \in shuffle(r.heap[r.ret].queue)}
        /\ Returned(g, r)

RegOp(g) ==
    \/ RegGet(g)
    \/ \E t \in Tracks : RegAdd(g, t)
    \/ \E t \in Tracks : RegAddNext(g, t)
    \/ RegAdvance(g)
    \/ RegSkip(g)
    \/ RegClear(g)
    \/ RegShuffle(g)

RegNext == \E g \in GuildIds : RegOp(g)

SpecRegistry == Init /\ [][RegNext]_vars

-----------------------------------------------------------------------------
(* YTDLSource, src/ytdl_source.py: one call at a time, on the shared cache *)

\* The call in progress goes on to try `path`.
Attempt(path) == [call EXCEPT !.tried = Append(@, path)]

\* The call c returns a source of that kind, playing that file.
Return(c, kind, file) ==
    [c EXCEPT !.pc = "done",
              !.out = [kind |-> kind, file |-> file, exc |-> "none", tracks |-> <<>>]]

\* The call c raises.
Raise(c, exc) ==
    [c EXCEPT !.pc = "done",
              !.out = [kind |-> "error", file |-> <<>>, exc |-> exc, tracks |-> <<>>]]

\* YTDLSource.from_query(query) is called.
ResolveCall(q) ==
    /\ call.pc \in {"idle", "done"}
    /\ call' = [fn |-> "from_query", pc |-> "local", query |-> q,
                data |-> <<>>, tried |-> <<>>, out |-> NoOut]
    /\ UNCHANGED <<rows, files, now, sessionVars, registryVars, playlistVars>>

\* 0. if os.path.isfile(query): the source is the file itself.
ResolveLocal ==
    /\ call.fn = "from_query"
    /\ call.pc = "local"
    /\ call' = IF isfile(LocalPath(call.query))
                 THEN Return(Attempt("local"), "local", LocalPath(call.query))
                 ELSE [Attempt("local") EXCEPT !.pc = "cache"]
    /\ UNCHANGED <<rows, files, now, sessionVars, registryVars, playlistVars>>

get_cached_path_without_touch(url) ==
    IF rows[url] # NoRow /\ isfile(rows[url].file_path)
      THEN [path |-> rows[url].file_path, rows |-> rows]
      ELSE [path |-> <<>>, rows |-> delete_cached_track(rows, url)]

get_cached_path_keeps_stale_row(url) ==
    IF rows[url] # NoRow /\ isfile(rows[url].file_path)
      THEN [path |-> rows[url].file_path, rows |-> touch_cached_track(rows, url)]
      ELSE [path |-> <<>>, rows |-> rows]

\* cache_manager.get_cached_path: the path returned (<<>> for None) and the
\* rows after the call.
get_cached_path(url) ==
    IF rows[url] # NoRow /\ isfile(rows[url].file_path)
      THEN [path |-> rows[url].file_path, rows |-> touch_cached_track(rows, url)]
      ELSE [path |-> <<>>, rows |-> delete_cached_track(rows, url)]

resolve_cache_always_miss ==
    /\ call.fn = "from_query"
    /\ call.pc = "cache"
    /\ rows' = rows
    /\ call' = [Attempt("cache") EXCEPT !.pc = "download"]
    /\ UNCHANGED <<files, now, sessionVars, registryVars, playlistVars>>

\* 1. cached_path = cache_manager.get_cached_path(query): on a hit the source
\* is the cached file.
ResolveCache ==
    /\ call.fn = "from_query"
    /\ call.pc = "cache"
    /\ LET got == get_cached_path(call.query) IN
         /\ rows' = got.rows
         /\ call' = IF got.path # <<>>
                      THEN Return(Attempt("cache"), "cache", got.path)
                      ELSE [Attempt("cache") EXCEPT !.pc = "download"]
    /\ UNCHANGED <<files, now, sessionVars, registryVars, playlistVars>>

\* 2. _extract_and_download(query) in the executor, then, if the file is at
\* the expected path, register_cached_file under the webpage_url and return
\* the downloaded file.  Every exception of the block, and a missing file,
\* lead to step 3.  For a search result data is replaced by
\* data["entries"][0], which has no "_downloaded_file": KeyError.
ResolveDownload ==
    /\ call.fn = "from_query"
    /\ call.pc = "download"
    /\ \/ \* _extract_and_download raises
          /\ call' = [Attempt("download") EXCEPT !.pc = "stream"]
          /\ UNCHANGED <<rows, files>>
       \/ \* _extract_and_download returns, having written the file or not
          \E wrote \in BOOLEAN :
            LET path == CachePath(call.query) IN
              IF IsFreeText(call.query) \/ (~wrote /\ ~isfile(path))
                THEN /\ call' = [Attempt("download") EXCEPT !.pc = "stream"]
                     /\ files' = IF wrote THEN files \cup {path} ELSE files
                     /\ rows' = rows
                ELSE \E size \in DownloadSizes :
                       \E put \in register_cached_file(
                                    webpage_url(call.query), path,
                                    TitleOf(call.query), size) :
                         /\ rows' = put.rows
                         /\ files' = put.files
                         /\ call' = IF put.raised
                                      THEN [Attempt("download") EXCEPT !.pc = "stream"]
                                      ELSE Return(Attempt("download"), "download", path)
    /\ UNCHANGED <<now, sessionVars, registryVars, playlistVars>>

\* 3. _extract_info(query) in the executor: the source streams from the CDN,
\* or the exception leaves from_query.
ResolveStream ==
    /\ call.fn = "from_query"
    /\ call.pc = "stream"
    /\ \E ok \in BOOLEAN :
         call' = IF ok THEN Return(Attempt("stream"), "stream", <<>>)
                 ELSE Raise(Attempt("stream"), "stream_failed")
    /\ UNCHANGED <<rows, files, now, sessionVars, registryVars, playlistVars>>

\* The ways _extract_info(query) may end: data, or an exception of yt-dlp
\* (the requested format is not available; anything else, None included).
ExtractOutcomes == {"ok", "format_unavailable", "other_error"}

fetch_metadata_only_downloads(q) ==
    /\ call.pc \in {"idle", "done"}
    /\ call' = Return([fn |-> "fetch_metadata_only", pc |-> "run", query |-> q,
                       data |-> <<>>,
                       tried |-> << [options |-> "_YTDL_OPTIONS", outcome |-> "ok"] >>,
                       out |-> NoOut], "metadata", <<>>)
    /\ rows' = upsert_cached_track(rows, webpage_url(q), CachePath(q),
                                    TitleOf(q), 900)
    /\ files' = files \cup {CachePath(q)}
    /\ UNCHANGED <<now, sessionVars, registryVars, playlistVars>>

\* YTDLSource.fetch_metadata_only(query): one call of _extract_info, with the
\* options _YTDL_OPTIONS; its exception is the caller's.
FetchMetadataOnly(q) ==
    /\ call.pc \in {"idle", "done"}
    /\ \E o \in ExtractOutcomes :
         LET c == [fn |-> "fetch_metadata_only", pc |-> "run", query |-> q,
                   data |-> <<>>,
                   tried |-> << [options |-> "_YTDL_OPTIONS", outcome |-> o] >>,
                   out |-> NoOut]
         IN  call' = IF o = "ok" THEN Return(c, "metadata", <<>>)
                     ELSE Raise(c, o)
    /\ UNCHANGED <<rows, files, now, sessionVars, registryVars, playlistVars>>

\* The playlist pages of the model, and the ids of their entries.
PlaylistUrls == {"p"}
EntryIds == {"a", "v"}
MaxEntries == 2

\* What _extract_playlist(url) may give as data["entries"]: each entry is the
\* info of a track, or None for one that failed (ignoreerrors).
PlaylistEntries ==
    UNION {[1..n -> EntryIds \cup {NULL}] : n \in 0..MaxEntries}

\* The dict appended for one entry: its url is webpage_url, or url.
TrackMeta(entry) == [url |-> webpage_url(entry)]

RECURSIVE playlist_results_keep_failed(_)
playlist_results_keep_failed(entries) ==
    IF entries = <<>> THEN <<>>
    ELSE <<TrackMeta(Head(entries))>> \o playlist_results_keep_failed(Tail(entries))

\* The loop of fetch_playlist_metadata over entries: None is skipped, every
\* other entry appends its dict.
RECURSIVE playlist_results(_)
playlist_results(entries) ==
    IF entries = <<>> THEN <<>>
    ELSE IF Head(entries) = NULL THEN playlist_results(Tail(entries))
    ELSE <<TrackMeta(Head(entries))>> \o playlist_results(Tail(entries))

\* YTDLSource.fetch_playlist_metadata(url): one call of _extract_playlist,
\* which raises (ValueError for no data, or the exception of yt-dlp) or gives
\* the data; the result is built from data["entries"].
FetchPlaylistMetadata(url) ==
    /\ call.pc \in {"idle", "done"}
    /\ \/ \E exc \in {"no_data", "other_error"} :
            call' = Raise([fn |-> "fetch_playlist_metadata", pc |-> "run",
                           query |-> url, data |-> <<>>, tried |-> <<>>,
                           out |-> NoOut], exc)
       \/ \E entries \in PlaylistEntries :
            call' = [fn |-> "fetch_playlist_metadata", pc |-> "done",
                     query |-> url, data |-> entries, tried |-> <<>>,
                     out |-> [kind |-> "playlist", file |-> <<>>, exc |-> "none",
                              tracks |-> playlist_results(entries)]]
    /\ UNCHANGED <<rows, files, now, sessionVars, registryVars, playlistVars>>

\* Time passes.
Tick ==
    /\ now < MaxTime
    /\ now' = now + 1
    /\ UNCHANGED <<rows, files, call, sessionVars, registryVars, playlistVars>>

\* The cached file of a query is deleted from outside the program.
ExternalRemove(q) ==
    /\ isfile(CachePath(q))
    /\ files' = files \ {CachePath(q)}
    /\ UNCHANGED <<rows, now, call, sessionVars, registryVars, playlistVars>>

ResolverNext ==
    \/ \E q \in Queries : ResolveCall(q)
    \/ ResolveLocal
    \/ ResolveCache
    \/ ResolveDownload
    \/ ResolveStream
    \/ \E q \in Queries : FetchMetadataOnly(q)
    \/ \E url \in PlaylistUrls : FetchPlaylistMetadata(url)
    \/ Tick
    \/ \E q \in Queries : ExternalRemove(q)

SpecResolver == Init /\ [][ResolverNext]_vars

-----------------------------------------------------------------------------
(* The cache on its own: calls of get_cached_path and register_cached_file *)

\* The queries whose downloads are registered, each under its own url.
CacheQueries == {"u", "v", "s"}

\* The urls of their rows.
CacheUrls == {webpage_url(q) : q \in CacheQueries}

\* cache_manager.get_cached_path(url), called on its own; tried lists the
\* path of the row found, which os.path.isfile tests.
CacheGet(url) ==
    /\ LET got == get_cached_path(url) IN
         /\ rows' = got.rows
         /\ call' = [fn |-> "get_cached_path", pc |-> "done", query |-> url,
                     data |-> <<>>,
                     tried |-> IF rows[url] = NoRow THEN <<>>
                               ELSE <<rows[url].file_path>>,
                     out |-> [kind |-> IF got.path # <<>> THEN "hit" ELSE "miss",
                              file |-> got.path, exc |-> "none",
                              tracks |-> <<>>]]
    /\ UNCHANGED <<files, now, sessionVars, registryVars, playlistVars>>

\* cache_manager.register_cached_file(url, file_path, title, duration) for
\* the file downloaded for q, called on its own; data holds the size of the
\* file (os.path.getsize) and tried lists the urls whose rows the eviction
\* deleted, in order.  A file that os.remove cannot remove
\* is met only in a cache that was within max_bytes before the call: no
\* second failure while the rows of the first are still there.
CachePut(q, size) ==
    /\ \E put \in register_cached_file(webpage_url(q), CachePath(q),
                                       TitleOf(q), size) :
         /\ put.raised => get_total_cache_size(rows) <= max_bytes
         /\ rows' = put.rows
         /\ files' = put.files
         /\ call' = [fn |-> "register_cached_file", pc |-> "done",
                     query |-> webpage_url(q), data |-> <<size>>,
                     tried |-> put.evicted,
                     out |-> [kind |-> IF put.raised THEN "error" ELSE "put",
                              file |-> CachePath(q),
                              exc |-> IF put.raised THEN "OSError" ELSE "none",
                              tracks |-> <<>>]]
    /\ UNCHANGED <<now, sessionVars, registryVars, playlistVars>>

CacheNext ==
    \/ \E url \in CacheUrls : CacheGet(url)
    \/ \E q \in CacheQueries, size \in Sizes : CachePut(q, size)
    \/ Tick
    \/ \E q \in Queries : ExternalRemove(q)

SpecCache == Init /\ [][CacheNext]_vars

-----------------------------------------------------------------------------
(* enforce_cache_limit step by step, from any table of rows *)

\* The tables the eviction may find: under each url no row, or a row of any
\* size and last_played; and the files that are there.
RowTables ==
    {r \in [Queries -> {NoRow} \cup
              {[file_path |-> CachePath(k), title |-> TitleOf(k),
                file_size |-> size, cached_at |-> 0, last_played |-> t]
                 : k \in CacheUrls, size \in Sizes, t \in 0..MaxTime}] :
       \A k \in Queries :
         r[k] # NoRow => k \in CacheUrls /\ r[k].file_path = CachePath(k)}

EvictInit ==
    /\ RegistryInit
    /\ SessionInit
    /\ PlaylistInit
    /\ rows \in RowTables
    /\ files \in SUBSET {CachePath(k) : k \in CacheUrls}
    /\ now = MaxTime
    /\ call = NoCall

\* db.get_all_cached_tracks(): the urls of the rows by last_played, rows of
\* the same last_played in any order.
get_all_cached_tracks(r) ==
    LET n == Cardinality(Cached(r)) IN
      {tracks \in [1..n -> Cached(r)] :
         /\ \A i, j \in 1..n : i # j => tracks[i] # tracks[j]
         /\ \A i, j \in 1..n :
              i < j => r[tracks[i]].last_played <= r[tracks[j]].last_played}

\* enforce_cache_limit is called: it returns at once when the total is within
\* max_bytes, and otherwise lists the rows, which data holds.
EvictStart ==
    /\ call.pc = "idle"
    /\ IF get_total_cache_size(rows) <= max_bytes
         THEN call' = Return([call EXCEPT !.fn = "enforce_cache_limit"],
                             "within", <<>>)
         ELSE \E tracks \in get_all_cached_tracks(rows) :
                call' = [call EXCEPT !.fn = "enforce_cache_limit",
                                     !.pc = "loop", !.data = tracks]
    /\ UNCHANGED <<rows, files, now, sessionVars, registryVars, playlistVars>>

evict_step_keeps_row ==
    /\ call.fn = "enforce_cache_limit"
    /\ call.pc = "loop"
    /\ call.data # <<>>
    /\ get_total_cache_size(rows) > max_bytes
    /\ files' = files \ {rows[Head(call.data)].file_path}
    /\ UNCHANGED <<rows, call, now, sessionVars, registryVars, playlistVars>>

\* One turn of the for loop with total above max_bytes: os.remove, which may
\* raise an OSError that is not caught, then total -= file_size and
\* db.delete_cached_track.  total is the sum over the rows left.
EvictStep ==
    /\ call.fn = "enforce_cache_limit"
    /\ call.pc = "loop"
    /\ call.data # <<>>
    /\ get_total_cache_size(rows) > max_bytes
    /\ LET track == Head(call.data) IN
         \/ /\ isfile(rows[track].file_path)
            /\ call' = Raise(call, "OSError")
            /\ UNCHANGED <<rows, files>>
         \/ /\ files' = files \ {rows[track].file_path}
            /\ rows' = delete_cached_track(rows, track)
            /\ call' = [call EXCEPT !.data = Tail(@),
                                    !.tried = Append(@, track)]
    /\ UNCHANGED <<now, sessionVars, registryVars, playlistVars>>

\* The loop ends: break on a total within max_bytes, or no track is left.
EvictEnd ==
    /\ call.fn = "enforce_cache_limit"
    /\ call.pc = "loop"
    /\ call.data = <<>> \/ get_total_cache_size(rows) <= max_bytes
    /\ call' = Return(call, "evicted", <<>>)
    /\ UNCHANGED <<rows, files, now, sessionVars, registryVars, playlistVars>>

EvictNext == EvictStart \/ EvictStep \/ EvictEnd

\* The call is synchronous code: it goes on until it ends.
SpecEvict ==
    /\ EvictInit
    /\ [][EvictNext]_vars
    /\ WF_vars(EvictStep)
    /\ WF_vars(EvictEnd)

\* The step is a call of get_cached_path, of register_cached_file.
GetStep == call'.fn = "get_cached_path" /\ (call' # call \/ rows' # rows)
PutStep == call'.fn = "register_cached_file" /\ (call' # call \/ rows' # rows)

\* What the eviction of a call of register_cached_file started from, seen
\* in the step of the call: the last_played and the file_size of the row
\* under k after the upsert, the rows then, and their total.
PutLastPlayed(k) == IF k = call'.query THEN now ELSE rows[k].last_played
PutCachedAt(k) ==
    IF k = call'.query /\ rows[k] = NoRow THEN now ELSE rows[k].cached_at
PutSize(k) == IF k = call'.query THEN call'.data[1] ELSE rows[k].file_size
PutCached == Cached(rows) \cup {call'.query}
PutTotal ==
    get_total_cache_size(rows) - rows[call'.query].file_size + call'.data[1]

\* The call of the step returned, having evicted the rows in call'.tried.
PutReturned == PutStep /\ call'.out.kind = "put"

\* What a returned eviction does, whatever the order: it deletes rows that
\* were there, one time each, none if the total was within max_bytes, each
\* one no later played than every row left, and it stops at the first total
\* within max_bytes.
EvictsOldestToBudget ==
    LET evicted == call'.tried IN
      /\ \A i \in 1..Len(evicted) : evicted[i] \in PutCached
      /\ \A i, j \in 1..Len(evicted) : i # j => evicted[i] # evicted[j]
      /\ Cached(rows') = PutCached \ Range(evicted)
      /\ \A i \in 1..Len(evicted) : \A k \in Cached(rows') :
           PutLastPlayed(evicted[i]) <= PutLastPlayed(k)
      /\ PutTotal <= max_bytes => evicted = <<>>
      /\ get_total_cache_size(rows') <= max_bytes
      /\ evicted # <<>> =>
           get_total_cache_size(rows') + PutSize(evicted[Len(evicted)])
             > max_bytes

\* The order of the steps of from_query.
PathOrder == <<"local", "cache", "download", "stream">>

\* No coroutine is running, suspended or scheduled and no callback is due.
Quiescent ==
    /\ LoopFree
    /\ scheduled = 0
    /\ \A t \in Tracks : resolving[t] = 0
    /\ \A err \in BOOLEAN : afterDue[err] = 0

\* The script is exhausted and the advance it led to has run to its end.
ScnDone == script = <<>> /\ Quiescent

IsPrefix(s, t) == Len(s) <= Len(t) /\ SubSeq(t, 1, Len(s)) = s

Count(q, t) == Cardinality({i \in 1..Len(q) : q[i] = t})

TypeOK ==
    /\ queue \in Seq(Tracks)
    /\ current \in Tracks \cup {NULL}
    /\ source \in Tracks \cup {NULL}
    /\ player \in {"none", "playing", "paused"}
    /\ running.pc \in {"idle", "lock", "check", "resolve", "play"}
    /\ ~vcConn => player = "none"
    /\ vcConn => gqVC
    /\ panel = "unset"

-----------------------------------------------------------------------------
(* Stored playlists, src/database.py: the songs of one playlist *)

\* Number of songs added to the playlist in a run.
MaxSongAdds == 4

\* Titles of the songs /playlist add stores.
Songs == {"x", "y"}

\* The index remove_song_from_playlist is given: /playlist remove passes the
\* number the user typed, less one.  An index past the last position stands
\* for every index that is the position of no row.
Indexes == 0..MaxSongAdds

\* SELECT COALESCE(MAX(position) + 1, 0) FROM playlist_songs.
next_pos(t) ==
    IF t = {} THEN 0
    ELSE (CHOOSE p \in {r.position : r \in t} :
            \A r \in t : r.position <= p) + 1

\* What a statement leaves: the table, and the error it raised if any.
Done(t) == [exc |-> "none", table |-> t]
Failed(t) == [exc |-> "IntegrityError", table |-> t]

\* INSERT INTO playlist_songs: a new id, the table's constraint
\* UNIQUE(playlist_id, position) checked.
insert_song(t, id, position, title) ==
    IF \E r \in t : r.position = position
      THEN Failed(t)
      ELSE Done(t \cup {[id |-> id, position |-> position, title |-> title]})

\* The rows an UPDATE ... WHERE position > index changes, one at a time and
\* against the scan's direction.
RECURSIVE update_positions_descending(_, _)
update_positions_descending(t, todo) ==
    IF todo = {} THEN Done(t)
    ELSE LET id  == CHOOSE i \in todo :
                      \A k \in todo :
                        (CHOOSE r \in t : r.id = k).position
                          <= (CHOOSE r \in t : r.id = i).position
             row == CHOOSE r \in t : r.id = id
         IN  IF \E r \in t : r.id # id /\ r.position = row.position - 1
               THEN Failed(t)
               ELSE update_positions_descending(
                      (t \ {row}) \cup {[row EXCEPT !.position = @ - 1]},
                      todo \ {id})

\* UPDATE playlist_songs SET position = position - 1 WHERE position > index:
\* the rows are changed one at a time as the scan of the index on
\* (playlist_id, position) meets them, lowest position first, and each change
\* is checked against UNIQUE(playlist_id, position).  `todo` holds the ids of
\* the rows still to change.
RECURSIVE update_positions(_, _)
update_positions(t, todo) ==
    IF todo = {} THEN Done(t)
    ELSE LET id  == CHOOSE i \in todo :
                      \A k \in todo :
                        (CHOOSE r \in t : r.id = i).position
                          <= (CHOOSE r \in t : r.id = k).position
             row == CHOOSE r \in t : r.id = id
         IN  IF \E r \in t : r.id # id /\ r.position = row.position - 1
               THEN Failed(t)
               ELSE update_positions(
                      (t \ {row}) \cup {[row EXCEPT !.position = @ - 1]},
                      todo \ {id})

\* db.add_song_to_playlist(playlist_id, title, url, duration).
AddSong(title) ==
    /\ sqlite_sequence < MaxSongAdds
    /\ LET ins == insert_song(playlist_songs, sqlite_sequence + 1,
                              next_pos(playlist_songs), title)
           c   == [NoCall EXCEPT !.fn = "add_song_to_playlist", !.query = title]
       IN  IF ins.exc # "none"
             THEN /\ call' = Raise(c, ins.exc)
                  /\ UNCHANGED playlistVars
             ELSE /\ call' = Return(c, "None", <<>>)
                  /\ playlist_songs' = ins.table
                  /\ sqlite_sequence' = sqlite_sequence + 1
    /\ UNCHANGED <<rows, files, now, sessionVars, registryVars>>

\* db.remove_song_from_playlist(playlist_id, index): one transaction, which
\* `with conn` commits, or rolls back when a statement raises.
RemoveSong(index) ==
    /\ LET kept    == {r \in playlist_songs : r.position # index}
           deleted == kept # playlist_songs
           upd     == IF deleted
                        THEN update_positions(kept,
                               {r.id : r \in {k \in kept : k.position > index}})
                        ELSE Done(kept)
           c       == [NoCall EXCEPT !.fn = "remove_song_from_playlist",
                                     !.data = <<index>>]
       IN  IF upd.exc # "none"
             THEN /\ call' = Raise(c, upd.exc)
                  /\ playlist_songs' = playlist_songs
             ELSE /\ call' = Return(c, IF deleted THEN "True" ELSE "False", <<>>)
                  /\ playlist_songs' = upd.table
    /\ UNCHANGED <<sqlite_sequence, rows, files, now, sessionVars, registryVars>>

PlaylistNext ==
    \/ \E title \in Songs : AddSong(title)
    \/ \E index \in Indexes : RemoveSong(index)

SpecPlaylist == Init /\ [][PlaylistNext]_vars

-----------------------------------------------------------------------------
(* Claims *)

C2_NoTrackDropped ==
    /\ \A i \in 1..Len(lost) : lost[i][2] # "already_playing"
    /\ Quiescent /\ vcConn /\ (is_playing \/ is_paused) /\ current # NULL
         => current = source

\* C3: in a connected session with no advance or callback in progress,
\* current is non-null if and only if the engine is playing or paused.
C3_CurrentIffEngineActive ==
    Quiescent /\ vcConn => ((current # NULL) <=> (is_playing \/ is_paused))

\* C4: add(track) appends the track at the tail of pending and leaves current
\* and the engine as they were; in a run that enqueues with add only, the
\* tracks become current in the order in which they were added.
C4_AddAppendsFifo ==
    /\ [][\A t \in Tracks : PlayCmd(t) =>
            /\ queue' = Append(queue, t)
            /\ current' = current
            /\ player' = player
            /\ source' = source
            /\ afterDue' = afterDue]_vars
    /\ [](IsPrefix(curLog, addLog))

\* C4 witness: A, B and C were added in this order and each became current
\* in this order; C is now playing.
C4_Witness ==
    /\ addLog = <<"A", "B", "C">>
    /\ curLog = <<"A", "B", "C">>
    /\ current = "C"
    /\ is_playing
    /\ source = "C"

\* C5: add_next(track) inserts the track at the head of pending and leaves
\* current as it was; after add_next(A), add_next(B) the next advance makes B
\* current and A follows, ahead of the track that was pending before; three
\* consecutive add_next calls are played last-in-first-out.
C5_AddNextLifo ==
    /\ [][\A t \in Tracks : PlayNextCmd(t) /\ (is_playing \/ is_paused) =>
            /\ queue' = <<t>> \o queue
            /\ current' = current]_vars
    /\ [](ScnDone /\ scn.id = "lifo"
            => current = scn.b /\ queue = <<scn.a, scn.c>>)
    /\ [](ScnDone /\ scn.id = "lifo3"
            => current = scn.c /\ queue = <<scn.b, scn.a>>)
    /\ [](scn.id = "lifo3" /\ script = << <<"track_end", NULL>> >>
            => queue = <<scn.c, scn.b, scn.a>>)

\* C5 witness: add_next(A), add_next(B) with C pending, then the advance:
\* B is current and plays, A and C wait in this order.
C5_Witness ==
    /\ ScnDone
    /\ scn.id = "lifo"
    /\ scn.a = "A" /\ scn.b = "B" /\ scn.c = "C"
    /\ current = "B"
    /\ source = "B"
    /\ is_playing
    /\ queue = <<"A", "C">>

\* C6: skip() leaves pending and current unchanged; current changes and
\* pending shrinks only in the steps of an advance; a skip of a playing track
\* and a natural end of track leave the engine in the same state, with one
\* more completion callback due, so both lead to the same advance.
C6_SkipLeavesQueue ==
    /\ [][SkipCmd => queue' = queue /\ current' = current]_vars
    /\ [][current' # current \/ Len(queue') < Len(queue)
            => PlayNextLock \/ PlayNextCheckVoice]_vars
    /\ [][(SkipCmd /\ is_playing) \/ TrackEnd =>
            /\ player' = "none"
            /\ afterDue' = OneMore(FALSE)
            /\ scheduled' = scheduled
            /\ running' = running]_vars

\* C6 witness: a skip has just stopped the engine; the current track and the
\* pending tracks are still there and the callback is due.
C6_Witness ==
    /\ lastOp[1] = "skip"
    /\ player = "none"
    /\ afterDue[FALSE] = 1
    /\ current = "A"
    /\ queue = <<"B", "C">>

\* C7: whenever the engine is playing or paused, skip() stops it and one
\* more completion callback becomes due.
C7_SkipStopsActiveEngine ==
    [][SkipCmd => player' = "none" /\ afterDue' = OneMore(FALSE)]_vars

\* C8: from current = A playing and empty pending, add(B), add(C), skip(),
\* the stop callback and the advance it triggers end with current = B and
\* pending = [C].
C8_SkipScenario ==
    ScnDone /\ scn.id = "skip" => current = scn.b /\ queue = <<scn.c>>

\* C8 witness: the scenario has run to its end with A, B, C.
C8_Witness ==
    /\ ScnDone
    /\ scn = [id |-> "skip", a |-> "A", b |-> "B", c |-> "C"]
    /\ current = "B"
    /\ queue = <<"C">>
    /\ is_playing
    /\ source = "B"

\* C9: clear() empties pending and sets current to null in every engine
\* state, and leaves the engine, the voice client and the due callbacks as
\* they were.
C9_ClearResetsQueueOnly ==
    [][GqClear =>
        /\ queue' = <<>>
        /\ current' = NULL
        /\ UNCHANGED <<player, source, afterDue, scheduled, gqVC, vcConn>>]_vars

\* C9 witness: clear() has just run while the engine plays: a pending track
\* and the current track are gone and the engine still plays.
C9_Witness ==
    /\ lastOp[1] = "clear"
    /\ Len(addLog) = 2
    /\ Len(curLog) = 1
    /\ queue = <<>>
    /\ current = NULL
    /\ is_playing

\* C10: shuffle() leaves the multiset of pending tracks unchanged (hence the
\* length) and leaves current unchanged.
C10_ShufflePreservesMultiset ==
    [][ShuffleCmd =>
        /\ \A t \in Tracks : Count(queue', t) = Count(queue, t)
        /\ Len(queue') = Len(queue)
        /\ current' = current]_vars

\* C10 witness: the pending tracks B, C were reordered to C, B while A is
\* current.
C10_Witness ==
    /\ lastOp[1] = "shuffle"
    /\ addLog = <<"A", "B", "C">>
    /\ curLog = <<"A">>
    /\ current = "A"
    /\ queue = <<"C", "B">>

\* C11: when the resolution of the popped track fails, the advance is entered
\* again at once, with no callback scheduled or due in between and the queue
\* untouched by the failure itself; from pending [a, b, c] where a and b fail
\* to resolve, a and b are made current and discarded in this order and c
\* becomes current and is played.
C11_ResolveFailureAdvancesAgain ==
    /\ [][\A t \in Tracks : FromQueryFailed(t) =>
            /\ running'.pc = "lock"
            /\ UNCHANGED <<queue, current, scheduled, afterDue, player, source>>]_vars
    /\ [](lastOp[1] = "resolve_fail" => running.pc = "lock")
    /\ [](ScnDone /\ scn.id = "cascade" =>
            /\ curLog = <<addLog[1], scn.a, scn.b, scn.c>>
            /\ current = scn.c
            /\ source = scn.c
            /\ is_playing
            /\ queue = <<>>
            /\ lost = <<>>)

\* C11 witness: A and B failed to resolve after the end of the first track,
\* C resolved and plays.
C11_Witness ==
    /\ ScnDone
    /\ scn = [id |-> "cascade", a |-> "A", b |-> "B", c |-> "C"]
    /\ curLog = <<addLog[1], "A", "B", "C">>
    /\ current = "C"
    /\ source = "C"
    /\ is_playing

\* C12: when every pending track fails to resolve, the cascade of advances
\* ends with current = null, pending empty and the engine idle: no track was
\* handed to it.
C12_AllFailEndsIdle ==
    ScnDone /\ scn.id = "exhaust" =>
        /\ current = NULL
        /\ queue = <<>>
        /\ player = "none"
        /\ source = addLog[1]
        /\ curLog = <<addLog[1], scn.a, scn.b>>
        /\ lost = <<>>

\* C12 witness: C has ended, A and B were popped in turn and both failed.
C12_Witness ==
    /\ ScnDone
    /\ scn.id = "exhaust"
    /\ curLog = <<"C", "A", "B">>
    /\ current = NULL
    /\ queue = <<>>
    /\ source = "C"

\* C13: the completion callback requests one advance whether or not it
\* carries an error and touches nothing else; after an engine error, as after
\* a natural end, the head of pending becomes current and is played and the
\* rest of pending stays.
C13_EngineErrorAdvancesLikeEnd ==
    /\ [][\A e \in BOOLEAN : AfterPlaying(e) =>
            /\ scheduled' = scheduled + 1
            /\ afterDue' = [afterDue EXCEPT ![e] = @ - 1]]_vars
    /\ [](ScnDone /\ scn.id \in {"end", "error"} =>
            /\ curLog = <<scn.a, scn.b>>
            /\ current = scn.b
            /\ source = scn.b
            /\ is_playing
            /\ queue = <<scn.c>>)

\* C13 witness: A failed in mid-stream with B and C pending; B plays and C
\* waits.
C13_Witness ==
    /\ ScnDone
    /\ scn = [id |-> "error", a |-> "A", b |-> "B", c |-> "C"]
    /\ current = "B"
    /\ source = "B"
    /\ is_playing
    /\ queue = <<"C">>

\* C14: the completion callback writes neither pending nor current: it only
\* submits one _play_next, and that coroutine enters the advance at the same
\* point (the locked pop) as the one a command starts.
C14_CallbackOnlyRequestsAdvance ==
    /\ [][(\E e \in BOOLEAN : AfterPlaying(e)) =>
            UNCHANGED <<queue, current, running, resolving, player, source>>]_vars
    /\ [][PlayNextStart =>
            running' = [pc |-> "lock", entry |-> NULL]
            /\ UNCHANGED <<queue, current>>]_vars
    /\ [][(\E t \in Tracks : PlayCmd(t)) /\ ~(is_playing \/ is_paused) =>
            running' = [pc |-> "lock", entry |-> NULL]]_vars

\* C14 witness: the callback of a failed player has just run with A current
\* and B, C pending: one advance is scheduled and the queue is as it was.
C14_Witness ==
    /\ lastOp = <<"after", TRUE>>
    /\ scheduled = 1
    /\ current = "A"
    /\ queue = <<"B", "C">>
    /\ LoopFree

\* C15: when clear() runs while the resolution of the popped track is in
\* flight, the track is not started once the resolution completes: the
\* engine stays idle and current stays null.
C15_ClearedResolutionDiscarded ==
    scn.id = "clear" /\ script = <<>> /\ lastOp[1] = "voice_play" =>
        /\ source = NULL
        /\ player = "none"
        /\ current = NULL

\* C16: the registry returns the queue it already holds for a guild id,
\* creates a fresh empty one on the first use of an id and never replaces it;
\* two guild ids never share a queue; and a call made for one guild
\* (lastCall.guild after the step), whatever the method, leaves the registry
\* entry, the pending tracks and the current track of every other guild as
\* they were.
C16_QueuesPerSession ==
    /\ [][\A g \in GuildIds : RegGet(g) =>
            IF guilds[g] # NoQueue
              THEN /\ lastCall'.ret = guilds[g]
                   /\ guilds' = guilds
                   /\ heap' = heap
              ELSE /\ lastCall'.ret = guilds'[g]
                   /\ lastCall'.ret \notin {guilds[h] : h \in GuildIds}
                   /\ heap'[lastCall'.ret] = NewGuildQueue]_vars
    /\ [][\A g \in GuildIds : guilds[g] # NoQueue => guilds'[g] = guilds[g]]_vars
    /\ [](\A g, h \in GuildIds :
            g # h /\ guilds[g] # NoQueue => guilds[g] # guilds[h])
    /\ [][\A h \in GuildIds : h # lastCall'.guild =>
            /\ guilds'[h] = guilds[h]
            /\ guilds[h] # NoQueue => heap'[guilds[h]] = heap[guilds[h]]]_vars

\* C16 witness: guild 1 has A current and B pending, guild 2 has C pending
\* and nothing current, and the last call was given the queue of guild 1.
C16_Witness ==
    /\ lastCall = [guild |-> 1, ret |-> guilds[1]]
    /\ guilds[1] # NoQueue
    /\ guilds[2] # NoQueue
    /\ heap[guilds[1]] = [queue |-> <<"B">>, current |-> "A"]
    /\ heap[guilds[2]] = [queue |-> <<"C">>, current |-> NULL]

\* C17: from_query tries local file, cache, download, streaming in this
\* order, each only after the ones before it have failed; it returns the
\* source of the last path it tried and raises only after all four were
\* tried; the local path succeeds exactly when the query is an existing
\* file, and the cache path exactly when the url has a record whose file
\* exists.
C17_PathsInFixedOrder ==
    /\ [](call.fn = "from_query" =>
            /\ IsPrefix(call.tried, PathOrder)
            /\ call.pc # "done" => call.pc = PathOrder[Len(call.tried) + 1]
            /\ call.pc = "done" /\ call.out.kind # "error" =>
                 /\ call.tried # <<>>
                 /\ call.out.kind = call.tried[Len(call.tried)]
            /\ call.pc = "done" /\ call.out.kind = "error" =>
                 call.tried = PathOrder)
    /\ [][ResolveLocal =>
            (call'.pc = "done" <=> isfile(LocalPath(call.query)))]_vars
    /\ [][ResolveCache =>
            (call'.pc = "done" <=>
                /\ rows[call.query] # NoRow
                /\ isfile(rows[call.query].file_path))]_vars

\* C17 witness: "u" was resolved a second time and came from the cache,
\* after the local check and with no download or streaming attempted.
C17_Witness ==
    /\ call.fn = "from_query"
    /\ call.pc = "done"
    /\ call.query = "u"
    /\ call.tried = <<"local", "cache">>
    /\ call.out.kind = "cache"
    /\ call.out.file = CachePath("u")

\* C18: whenever the download step does not yield the downloaded source,
\* from_query goes on to streaming without raising, and the cache record of
\* the query and of its webpage_url are as they were before the step.
C18_DownloadFailureLeavesNoRecord ==
    [][ResolveDownload =>
         \/ call'.pc = "done" /\ call'.out.kind = "download"
         \/ /\ call'.pc = "stream"
            /\ rows'[call.query] = rows[call.query]
            /\ rows'[webpage_url(call.query)] =
                 rows[webpage_url(call.query)]]_vars

\* C19: fetch_metadata_only returns the metadata of the first attempt that
\* succeeds after attempts that failed for the format, and every attempt
\* that fails because the format is unavailable is followed by another
\* attempt.
C19_FormatFailureTriesLaterProfile ==
    call.fn = "fetch_metadata_only" /\ call.pc = "done" =>
        LET n == Len(call.tried) IN
          /\ call.out.kind = "metadata" =>
               /\ call.tried[n].outcome = "ok"
               /\ \A i \in 1..(n - 1) :
                    call.tried[i].outcome = "format_unavailable"
          /\ \A i \in 1..n :
               call.tried[i].outcome = "format_unavailable" => i < n

\* C20: when every attempt with the extraction options failed and the query
\* is free text, exactly one attempt with an alternate search provider was
\* made; the exception raised is that of the last attempt made.
C20_AlternateProviderForFreeText ==
    call.fn = "fetch_metadata_only" /\ call.pc = "done"
      /\ call.out.kind = "error" =>
        LET alternate == {i \in 1..Len(call.tried) :
                             call.tried[i].options = "alternate_provider"}
        IN  /\ IsFreeText(call.query) => Cardinality(alternate) = 1
            /\ call.out.exc = call.tried[Len(call.tried)].outcome

\* C21: the enqueue-time operations of the resolver (fetch_metadata_only,
\* fetch_playlist_metadata) download nothing and create, change or delete no
\* cache record; a cache record changes only inside from_query, in its cache
\* step or its download step.
C21_EnqueueLeavesCacheAlone ==
    [][/\ (call' # call /\ call'.fn \in {"fetch_metadata_only",
                                         "fetch_playlist_metadata"})
            => rows' = rows /\ files' = files
       /\ rows' # rows
            => call.fn = "from_query" /\ call.pc \in {"cache", "download"}]_vars

\* A playlist was fetched while the cache holds a record and its file.
C21_Witness ==
    /\ call.fn = "fetch_playlist_metadata"
    /\ call.out.tracks # <<>>
    /\ \E k \in Cached(rows) : isfile(rows[k].file_path)

\* C22: fetch_playlist_metadata returns the metadata of exactly the entries
\* that resolved, in the order of the playlist; an entry that failed is left
\* out and raises nothing.
C22_PlaylistKeepsResolvedInOrder ==
    call.fn = "fetch_playlist_metadata" =>
        LET entries  == call.data
            resolved == {i \in 1..Len(entries) : entries[i] # NULL}
            tracks   == call.out.tracks
        IN  /\ call.out.kind = "error" => entries = <<>> /\ tracks = <<>>
            /\ call.out.kind # "error" =>
                 /\ call.out.exc = "none"
                 /\ Len(tracks) = Cardinality(resolved)
                 /\ \A i \in resolved :
                      tracks[Cardinality({j \in resolved : j <= i})]
                        = TrackMeta(entries[i])

\* A playlist whose first entry failed: the second one is returned.
C22_Witness ==
    /\ call.fn = "fetch_playlist_metadata"
    /\ call.data = <<NULL, "a">>
    /\ call.out.tracks = <<[url |-> "u"]>>

\* C23: get_cached_path(url) on a row whose file is there returns the path
\* of that row and sets its last_played to the current time; no other row
\* and no other field changes, and no file.
C23_HitReturnsPathAndTouches ==
    [][LET url == call'.query IN
         GetStep /\ rows[url] # NoRow /\ isfile(rows[url].file_path) =>
           /\ call'.out.kind = "hit"
           /\ call'.out.file = rows[url].file_path
           /\ rows' = [rows EXCEPT ![url].last_played = now]
           /\ files' = files]_vars

\* A hit at a later time than the one the row was cached at, with another
\* row in the cache.
C23_Witness ==
    /\ call.fn = "get_cached_path"
    /\ call.out.kind = "hit"
    /\ rows[call.query].cached_at < rows[call.query].last_played
    /\ rows[call.query].last_played = now
    /\ Cached(rows) # {call.query}

\* C24: get_cached_path(url) on a row whose file was removed from outside
\* returns a miss, raises nothing and deletes that row and nothing else; the
\* same call made again after the miss is a miss again, raises nothing and
\* changes nothing.
C24_StaleRowHealedOnce ==
    /\ [][LET url == call'.query IN
            GetStep /\ rows[url] # NoRow /\ ~isfile(rows[url].file_path) =>
              /\ call'.out.kind = "miss"
              /\ call'.out.file = <<>>
              /\ call'.out.exc = "none"
              /\ rows' = [rows EXCEPT ![url] = NoRow]
              /\ files' = files]_vars
    /\ [](call.fn = "get_cached_path" /\ call.out.kind = "miss" =>
            LET again == get_cached_path(call.query) IN
              /\ again.path = <<>>
              /\ again.rows = rows)

\* A miss on a row that was there, its file gone, with another row left.
C24_Witness ==
    /\ call.fn = "get_cached_path"
    /\ call.out.kind = "miss"
    /\ call.tried # <<>>
    /\ rows[call.query] = NoRow
    /\ Cached(rows) # {}

\* C25: register_cached_file(url, ...) leaves at most one row under url: it
\* inserts one if there is none, and otherwise overwrites file_path, title
\* and file_size and sets last_played to the current time; every other row
\* is as before or deleted, and when the call returns the eviction has run.
C25_PutUpsertsThenEvicts ==
    [][LET url  == call'.query
           path == call'.out.file
           size == call'.data[1]
       IN  PutStep =>
             /\ rows'[url] # NoRow =>
                  \E q \in CacheQueries :
                    /\ path = CachePath(q)
                    /\ rows'[url] =
                         [file_path |-> path, title |-> TitleOf(q),
                          file_size |-> size,
                          cached_at |-> IF rows[url] = NoRow THEN now
                                        ELSE rows[url].cached_at,
                          last_played |-> now]
             /\ \A k \in Queries \ {url} : rows'[k] \in {rows[k], NoRow}
             /\ Cardinality(Cached(rows')) <= Cardinality(Cached(rows) \cup {url})
             /\ call'.out.kind = "put" =>
                  get_total_cache_size(rows') <= max_bytes
                    \/ Cached(rows') = {}]_vars

\* A row cached earlier was overwritten, with a file of another size than
\* that of the other row, and no row was evicted.
C25_Witness ==
    /\ call.fn = "register_cached_file"
    /\ call.out.kind = "put"
    /\ call.tried = <<>>
    /\ rows[call.query].cached_at < rows[call.query].last_played
    /\ rows[call.query].last_played = now
    /\ rows[call.query].file_size = 900
    /\ \E k \in Cached(rows) : rows[k].file_size = 900 /\ k # call.query

\* C26: after any calls of register_cached_file and get_cached_path, when no
\* register_cached_file is in progress, the sum of file_size over the rows is
\* at most max_bytes; and when the file registered is alone above max_bytes,
\* no row is left when the call returns.
C26_TotalWithinBudget ==
    /\ [](get_total_cache_size(rows) <= max_bytes)
    /\ [][PutStep /\ call'.out.kind = "put" /\ call'.data[1] > max_bytes
            => Cached(rows') = {}]_vars

C29_PutKeepsItsOwnRow ==
    [][PutStep /\ rows'[call'.query] = NoRow =>
         /\ PutSize(call'.query) > max_bytes
         /\ Cached(rows') = {}]_vars

\* C30: among rows with the same last_played the eviction deletes the one
\* with the oldest cached_at first: a row is evicted before every row of the
\* same last_played and a later cached_at, and none of those is left when it
\* is evicted.
C30_TiesEvictedByCachedAt ==
    [][PutStep =>
         LET evicted == call'.tried IN
           \A i \in 1..Len(evicted) :
             \A k \in PutCached \ {evicted[j] : j \in 1..i} :
               PutLastPlayed(k) = PutLastPlayed(evicted[i])
                 => PutCachedAt(evicted[i]) <= PutCachedAt(k)]_vars

\* C31: a file that the eviction cannot remove, because it is gone already
\* or for another reason, is passed over: the row is deleted all the same,
\* the eviction goes on until the total is within max_bytes or no row is
\* left, and register_cached_file raises nothing.
C31_RemovalFailureTolerated ==
    [][PutStep =>
         /\ call'.out.exc = "none"
         /\ get_total_cache_size(rows') <= max_bytes \/ Cached(rows') = {}
         /\ Cached(rows') = PutCached \ Range(call'.tried)]_vars

\* C32: enforce_cache_limit always ends, from every table of rows: every
\* turn of its loop deletes one row and has one track less to visit, and
\* when it returns the total is within max_bytes or no row is left.
C32_EvictionTerminates ==
    /\ (call.pc = "loop") ~> (call.pc = "done")
    /\ [][call.pc = "loop" /\ call'.pc = "loop" =>
            /\ Cardinality(Cached(rows')) = Cardinality(Cached(rows)) - 1
            /\ Len(call'.data) = Len(call.data) - 1]_vars
    /\ [](call.pc = "done" /\ call.out.kind # "error" =>
            get_total_cache_size(rows) <= max_bytes \/ Cached(rows) = {})

\* An eviction that went through three rows and left none, the last one
\* alone above max_bytes.
C32_Witness ==
    /\ call.fn = "enforce_cache_limit"
    /\ call.out.kind = "evicted"
    /\ Len(call.tried) = 3
    /\ Cached(rows) = {}

\* C33: when /stop has ended, the queue is empty, current is None, the
\* player is stopped and the voice client disconnected; from every state,
\* also one in which no now-playing panel was ever sent.
C33_StopClearsAndDisconnects ==
    lastOp[1] = "stop" =>
        /\ queue = <<>>
        /\ current = NULL
        /\ player = "none"
        /\ ~vcConn
        /\ ~gqVC

\* The ids of the songs of table t.
SongIds(t) == {r.id : r \in t}

\* The positions of table t are exactly 0..n-1, each the position of one row.
PositionsCompact(t) ==
    /\ \A r \in t : r.position < Cardinality(t)
    /\ \A r, k \in t : r.position = k.position => r = k

\* The songs of t that are still in u have in u the title and the relative
\* order they have in t.
OrderKept(t, u) ==
    \A a, b \in t, c, d \in u :
      c.id = a.id /\ d.id = b.id =>
        /\ c.title = a.title
        /\ (a.position < b.position) <=> (c.position < d.position)

\* C34: whatever songs are added and removed, the positions of the playlist
\* are exactly 0..n-1 without gap or duplicate; an add puts the new song last
\* and a remove takes out the song at the index, both keeping the order of the
\* other songs; remove_song_from_playlist returns True exactly when a song was
\* at the index, and changes nothing when it returns False.
C34_PositionsStayCompact ==
    /\ [](PositionsCompact(playlist_songs))
    /\ [][call'.fn = "add_song_to_playlist" =>
            /\ call'.out.kind = "None"
            /\ \E r \in playlist_songs' :
                 /\ r.position = Cardinality(playlist_songs)
                 /\ r.title = call'.query
                 /\ SongIds(playlist_songs) = SongIds(playlist_songs') \ {r.id}
                 /\ r.id \notin SongIds(playlist_songs)
            /\ OrderKept(playlist_songs, playlist_songs')]_vars
    /\ [][call'.fn = "remove_song_from_playlist" =>
            LET at == {r \in playlist_songs : r.position = call'.data[1]} IN
              /\ call'.out.kind = (IF at # {} THEN "True" ELSE "False")
              /\ call'.out.kind = "False" => playlist_songs' = playlist_songs
              /\ SongIds(playlist_songs') = SongIds(playlist_songs) \ SongIds(at)
              /\ OrderKept(playlist_songs, playlist_songs')]_vars

\* The second of four songs was removed: two songs moved down.
C34_Witness ==
    /\ call.fn = "remove_song_from_playlist"
    /\ call.data = <<1>>
    /\ call.out.kind = "True"
    /\ SongIds(playlist_songs) = {1, 3, 4}
    /\ PositionsCompact(playlist_songs)


\* C35: voice_client.play is never called while the player is playing or
\* paused, and a command starts _play_next only when no _play_next of the
\* session is suspended in from_query.
C35_PlayOnlyOnIdleEngine ==
    [][/\ running.pc = "play" /\ running'.pc # "play" =>
            ~is_playing /\ ~is_paused
       /\ lastOp'[1] \in {"play", "playnext"} /\ running'.pc = "lock" =>
            \A t \in Tracks : resolving[t] = 0]_vars

\* from_query returns the source of its download step.
DownloadReturned ==
    /\ call.fn = "from_query"
    /\ call.pc = "download"
    /\ call'.pc = "done"
    /\ call'.out.kind = "download"

\* C36: when from_query returns the downloaded file, that file exists and is
\* the file_path of the row of the track's url, whatever the file's size.
C36_DownloadedFileIsCached ==
    [][DownloadReturned =>
         /\ call'.out.file \in files'
         /\ rows'[webpage_url(call.query)].file_path = call'.out.file]_vars

\* The download of query q was registered and is still in the cache: the row
\* of its url names the file that download wrote, and the file is there.
StillCached(q) ==
    /\ rows[webpage_url(q)] # NoRow
    /\ rows[webpage_url(q)].file_path = CachePath(q)
    /\ isfile(CachePath(q))

\* C37: from_query(q), called while the download of an earlier from_query(q)
\* is still in the cache, returns the cached file and starts no download.
C37_SecondResolveHits ==
    [][/\ call.fn = "from_query"
       /\ call.pc = "cache"
       /\ call'.pc # "cache"
       /\ StillCached(call.query)
       => /\ call'.pc = "done"
          /\ call'.out.kind = "cache"
          /\ call'.out.file = CachePath(call.query)]_vars

\* C38: between calls, every file in the cache directory is the file_path
\* of a row of audio_cache.
C38_NoUntrackedFile ==
    call.pc \in {"idle", "done"} =>
      \A q \in Queries :
        isfile(CachePath(q)) =>
          \E k \in Queries : rows[k] # NoRow /\ rows[k].file_path = CachePath(q)

\* C39: _play_next on a session with pending tracks and no connected voice
\* client pops the head track, leaving the other tracks in their order, then
\* sets current to None and returns: it resolves nothing, plays nothing, and
\* the popped track is not put back.
C39_NoVoiceDiscardsHead ==
    [][/\ running.pc = "lock" /\ running'.pc # "lock" /\ queue # <<>> =>
            /\ queue' = Tail(queue)
            /\ running' = [pc |-> "check", entry |-> Head(queue)]
       /\ running.pc = "check" /\ running'.pc # "check" /\ (~gqVC \/ ~vcConn) =>
            /\ current' = NULL
            /\ running' = Idle
            /\ UNCHANGED <<queue, resolving, scheduled, player, source, lost>>]_vars

\* A track was popped and dropped for want of a voice client, and others are
\* still pending.
C39_Witness ==
    /\ lastOp[1] = "check"
    /\ lastOp[2] # NULL
    /\ running = Idle
    /\ current = NULL
    /\ queue # <<>>
    /\ lastOp[2] \notin Range(queue)

\* Nothing is in progress that would start the next track: no track plays or
\* is paused, no callback is due, no _play_next is submitted, running or
\* suspended.
Quiet ==
    /\ player = "none"
    /\ running = Idle
    /\ scheduled = 0
    /\ \A error \in BOOLEAN : afterDue[error] = 0
    /\ \A t \in Tracks : resolving[t] = 0

\* C40: with the voice client connected, resolutions that end and players
\* that call after=, every track enqueued is in time popped and made current,
\* every popped track is given to the player unless its resolution failed
\* (voice_client.play never refuses one), and the session never rests with
\* tracks pending and the player idle.
C40_EveryTrackPlayedOrFailed ==
    /\ \A n \in 1..MaxAdds : (Len(addLog) >= n) ~> (Len(curLog) >= n)
    /\ [](lost = <<>>)
    /\ [](~(Quiet /\ queue # <<>>))

=============================================================================
